---- MODULE Spec2Model ----
(***************************************************************************)
(* Buscador_Archivos_Local.py: a local file index kept in SQLite           *)
(* (tables archivos and tags), with the commands index, tag-add,           *)
(* tag-remove, list-tags, search and show.                                 *)
(*                                                                         *)
(* Conventions of the model                                                *)
(*  - A Python str that the program inspects character by character (a     *)
(*    path, a name, an extension, a tag, a query) is a sequence of         *)
(*    one-character strings.  A date string is only ever parsed as a       *)
(*    whole and is a TLA+ string.                                          *)
(*  - An optional command-line value is a sequence of length <= 1:         *)
(*    None is << >> and a supplied value v is <<v>>.                       *)
(*  - A float score is the exact fraction <<n, d>> in lowest terms; the    *)
(*    ratios of the short strings used here are distinct doubles exactly   *)
(*    when they are distinct fractions.                                    *)
(*  - A table is a bag of rows (SQL tables may hold equal rows unless a    *)
(*    UNIQUE constraint forbids it).  The id column of archivos is never   *)
(*    read by the program and is left out of the rows.                     *)
(*  - Time is counted in days since the epoch, UTC.                        *)
(*  - Each command is one run of the program: it starts from the shell,    *)
(*    prints its output and ends (Terminar).  antes and leidos are         *)
(*    history variables; no command reads them.                            *)
(***************************************************************************)
EXTENDS Integers, Sequences, FiniteSets, Bags, TLC

VARIABLES
  disk,         \* the files on disk: path -> None, or Some(stat result)
  archivos,     \* table archivos as stored (committed)
  tags,         \* table tags as stored (committed)
  pc,           \* "shell": no command runs; "walking": inside the loop of
                \* indexar; "done": the command has printed its output
  archivos_tx,  \* indexar: table archivos as its open transaction sees it
  cola,         \* indexar: the directories os.walk has still to list
  pendientes,   \* indexar: the files of the current directory still to do
  contador,     \* indexar: contador
  args,         \* the parsed command line of the running command
  salida,       \* what the command printed (and, for search, resultados)
  antes,        \* history: the stored tables when the command started
  leidos        \* history: the <<path, stat result>> pairs indexar upserted

vars == <<disk, archivos, tags, pc, archivos_tx, cola, pendientes, contador,
          args, salida, antes, leidos>>

\* the local state of indexar
walk == <<archivos_tx, cola, pendientes, contador, leidos>>

(***************************************************************************)
(* Bounds of the model.                                                    *)
(***************************************************************************)
\* file sizes and size bounds range over 0..MaxSize
MaxSize == 1
\* modification times and date bounds range over -1..MaxTime
MaxTime == 0
\* --limit ranges over -1..MaxLimit, and the default
MaxLimit == 2

None == << >>
Some(v) == <<v>>

(***************************************************************************)
(* Strings.                                                                *)
(***************************************************************************)
\* str.lower() on one character, for the characters the model uses
LowerChar(c) ==
  CASE c = "T" -> "t"
    [] c = "X" -> "x"
    [] c = "B" -> "b"
    [] OTHER -> c

\* str.lower()
Lower(s) == [i \in 1..Len(s) |-> LowerChar(s[i])]

\* str.lstrip(c): every leading c is removed
RECURSIVE LStrip(_, _)
LStrip(s, c) == IF s # << >> /\ Head(s) = c THEN LStrip(Tail(s), c) ELSE s

\* str.rfind(c), 1-based; 0 when c does not occur
RFind(s, c) ==
  LET I == {i \in 1..Len(s) : s[i] = c}
  IN IF I = {} THEN 0 ELSE CHOOSE i \in I : \A j \in I : j <= i

\* Path.name: the final component
PathName(p) == SubSeq(p, RFind(p, "/") + 1, Len(p))

\* Path.suffix: from the last dot of the name, unless the name starts or
\* ends with that dot
PathSuffix(p) ==
  LET name == PathName(p)
      i == RFind(name, ".")
  IN IF 1 < i /\ i < Len(name) THEN SubSeq(name, i, Len(name)) ELSE << >>

\* the code point of a character, for the characters the model uses
Ord(c) ==
  CASE c = "." -> 46
    [] c = "/" -> 47
    [] c = "B" -> 66
    [] c = "T" -> 84
    [] c = "X" -> 88
    [] c = "a" -> 97
    [] c = "b" -> 98
    [] c = "d" -> 100
    [] c = "s" -> 115
    [] c = "t" -> 116
    [] c = "x" -> 120

\* s < t in the order of strings (by code point, a proper prefix first)
RECURSIVE StrLess(_, _)
StrLess(s, t) ==
  IF t = << >> THEN FALSE
  ELSE IF s = << >> THEN TRUE
  ELSE IF Head(s) # Head(t) THEN Ord(Head(s)) < Ord(Head(t))
  ELSE StrLess(Tail(s), Tail(t))

(***************************************************************************)
(* Fractions, standing for the floats of the scores.                       *)
(***************************************************************************)
RECURSIVE GCD(_, _)
GCD(a, b) == IF b = 0 THEN a ELSE GCD(b, a % b)

Frac(n, d) == LET g == GCD(n, d) IN <<n \div g, d \div g>>

FracGeq(x, y) == x[1] * y[2] >= y[1] * x[2]

\* max(a, b, c) of Python: the first of the largest
Max3(a, b, c) ==
  LET ab == IF FracGeq(a, b) THEN a ELSE b
  IN IF FracGeq(ab, c) THEN ab ELSE c

(***************************************************************************)
(* difflib.SequenceMatcher(None, a, b).ratio().  The strings are far       *)
(* shorter than the 200 characters at which autojunk starts, so no         *)
(* character is junk.  Indices are Python's (0-based, half-open).          *)
(***************************************************************************)
\* find_longest_match: the longest block a[i:i+k] = b[j:j+k] inside
\* a[alo:ahi], b[blo:bhi]; of the longest the one starting earliest in a,
\* and of those the one starting earliest in b
find_longest_match(a, alo, ahi, b, blo, bhi) ==
  LET Blocks == {m \in (alo..(ahi - 1)) \X (blo..(bhi - 1)) \X (1..(ahi - alo)) :
                   /\ m[1] + m[3] <= ahi
                   /\ m[2] + m[3] <= bhi
                   /\ \A e \in 0..(m[3] - 1) : a[m[1] + e + 1] = b[m[2] + e + 1]}
      Better(m, n) == \/ m[3] > n[3]
                      \/ m[3] = n[3] /\ m[1] < n[1]
                      \/ m[3] = n[3] /\ m[1] = n[1] /\ m[2] <= n[2]
  IN IF Blocks = {} THEN <<alo, blo, 0>>
     ELSE CHOOSE m \in Blocks : \A n \in Blocks : Better(m, n)

\* get_matching_blocks: the number of matched characters, the longest block
\* first, then the pieces to its left and to its right
RECURSIVE matches(_, _, _, _, _, _)
matches(a, alo, ahi, b, blo, bhi) ==
  LET m == find_longest_match(a, alo, ahi, b, blo, bhi)
  IN IF m[3] = 0 THEN 0
     ELSE m[3]
          + (IF alo < m[1] /\ blo < m[2]
             THEN matches(a, alo, m[1], b, blo, m[2]) ELSE 0)
          + (IF m[1] + m[3] < ahi /\ m[2] + m[3] < bhi
             THEN matches(a, m[1] + m[3], ahi, b, m[2] + m[3], bhi) ELSE 0)

\* ratio(): 2.0 * matches / (len(a) + len(b)), and 1.0 for two empty strings
ratio(a, b) ==
  IF Len(a) + Len(b) = 0 THEN <<1, 1>>
  ELSE Frac(2 * matches(a, 0, Len(a), b, 0, Len(b)), Len(a) + Len(b))

score_nombre(query, name) == ratio(Lower(query), Lower(name))

(***************************************************************************)
(* The file system the index command walks: two directories, d and d/s,    *)
(* one file name in each; z is a path that does not exist.                 *)
(***************************************************************************)
f1 == <<"d", "/", "a", "b", ".", "T">>
f2 == <<"d", "/", "s", "/", "b">>
Files == {f1, f2}
Dirs == {<<"d">>, <<"d", "/", "s">>}
Rutas == Dirs \cup {<<"z">>}
Tags == {<<"x">>, <<"X">>}

\* what stat() can return: every write to a file changes its size and its
\* mtime together (size s goes with mtime s - 1, so that the smallest file
\* is dated before the epoch)
DiskStats ==
  {st \in [size : 0..MaxSize, mtime : (0 - 1)..MaxTime] : st.mtime = st.size - 1}

Parent(p) == SubSeq(p, 1, RFind(p, "/") - 1)

\* the orders in which the elements of a set can be listed
Perms(S) ==
  {s \in [1..Cardinality(S) -> S] :
     \A i, j \in 1..Cardinality(S) : i # j => s[i] # s[j]}

(***************************************************************************)
(* The tables.                                                             *)
(***************************************************************************)
\* the rows of a table, the copies of a row told apart
Instances(tabla) ==
  UNION {{<<r, k>> : k \in 1..CopiesIn(r, tabla)} : r \in BagToSet(tabla)}

\* the rows of a table that are in the set keep
Restrict(tabla, keep) == [r \in keep \cap BagToSet(tabla) |-> tabla[r]]

\* INSERT into a table with no UNIQUE constraint: one more row
InsertPlain(tabla, row) == tabla (+) SetToBag({row})

\* a replace that deletes every row (no WHERE) before it inserts
ReplaceAll(tabla, row) == SetToBag({row})

\* INSERT OR REPLACE INTO archivos, path UNIQUE: the row of the same path
\* is deleted, the new one inserted
InsertOrReplace(tabla, row) ==
  Restrict(tabla, {r \in BagToSet(tabla) : r.path # row.path})
    (+) SetToBag({row})

\* INSERT OR IGNORE INTO tags, UNIQUE(file_path, tag): nothing is inserted
\* when the pair is there
InsertOrIgnore(tabla, row) ==
  IF BagIn(row, tabla) THEN tabla ELSE tabla (+) SetToBag({row})

\* DELETE FROM tags WHERE file_path = ? AND tag = ?
DeleteTag(tabla, path, tag) ==
  Restrict(tabla, {r \in BagToSet(tabla) :
                     ~(r.file_path = path /\ r.tag = tag)})

\* the row indexar writes for path p with stat result st
FileRow(p, st) ==
  [path |-> p, name |-> PathName(p),
   ext |-> LStrip(Lower(PathSuffix(p)), "."),
   size |-> st.size, mtime |-> st.mtime]

\* SELECT tag FROM tags WHERE file_path = ?
get_tags_for(path, tabla) ==
  {r.tag : r \in {x \in BagToSet(tabla) : x.file_path = path}}

NoArgs == [cmd |-> "none"]
NoSalida == [cmd |-> "none"]
NoAntes == [archivos |-> EmptyBag, tags |-> EmptyBag]
Ahora == [archivos |-> archivos, tags |-> tags]

Init ==
  /\ disk = [f \in Files |-> None]
  /\ archivos = EmptyBag
  /\ tags = EmptyBag
  /\ pc = "shell"
  /\ archivos_tx = EmptyBag
  /\ cola = << >>
  /\ pendientes = << >>
  /\ contador = 0
  /\ args = NoArgs
  /\ salida = NoSalida
  /\ antes = NoAntes
  /\ leidos = << >>

(***************************************************************************)
(* The environment: files are written and deleted, also during a walk.     *)
(***************************************************************************)
Escribir(f, st) ==
  /\ pc \in {"shell", "walking"}
  /\ disk[f] # Some(st)
  /\ disk' = [disk EXCEPT ![f] = Some(st)]
  /\ UNCHANGED <<archivos, tags, pc, walk, args, salida, antes>>

Borrar(f) ==
  /\ pc \in {"shell", "walking"}
  /\ disk[f] # None
  /\ disk' = [disk EXCEPT ![f] = None]
  /\ UNCHANGED <<archivos, tags, pc, walk, args, salida, antes>>

(***************************************************************************)
(* index: indexar, one step per directory listed and per file stat-ed.     *)
(* The INSERTs of a walk are made in one transaction of the connection     *)
(* (archivos_tx); conn.commit() after the loop makes them the stored       *)
(* table (archivos).                                                       *)
(***************************************************************************)
IndexStart(ruta) ==
  /\ pc = "shell"
  /\ args' = [cmd |-> "index", path |-> ruta]
  /\ antes' = Ahora
  /\ IF ruta \notin Dirs
     THEN /\ salida' = [cmd |-> "index", msg |-> "Ruta no existe", n |-> 0]
          /\ pc' = "done"
          /\ UNCHANGED <<archivos_tx, cola>>
     ELSE /\ pc' = "walking"
          /\ archivos_tx' = archivos
          /\ cola' = <<ruta>>
          /\ UNCHANGED salida
  /\ UNCHANGED <<disk, archivos, tags, pendientes, contador, leidos>>

\* os.walk yields the next directory: its files and its subdirectories
WalkDir ==
  /\ pc = "walking"
  /\ pendientes = << >>
  /\ cola # << >>
  /\ \E fs \in Perms({f \in Files : disk[f] # None /\ Parent(f) = Head(cola)}),
        ds \in Perms({e \in Dirs : Parent(e) = Head(cola)}) :
       /\ pendientes' = fs
       /\ cola' = ds \o Tail(cola)
  /\ UNCHANGED <<disk, archivos, tags, pc, archivos_tx, contador, leidos,
                 args, salida, antes>>

\* the body of the loop for one file: stat (a file that is gone is
\* skipped), then INSERT OR REPLACE
IndexFile ==
  /\ pc = "walking"
  /\ pendientes # << >>
  /\ LET p == Head(pendientes)
     IN IF disk[p] = None
        THEN UNCHANGED <<archivos_tx, contador, leidos>>
        ELSE /\ archivos_tx' = InsertOrReplace(archivos_tx, FileRow(p, disk[p][1]))
             /\ contador' = contador + 1
             /\ leidos' = Append(leidos, <<p, disk[p][1]>>)
  /\ pendientes' = Tail(pendientes)
  /\ UNCHANGED <<disk, archivos, tags, pc, cola, args, salida, antes>>

\* conn.commit() after the walk, and the final message
IndexCommit ==
  /\ pc = "walking"
  /\ pendientes = << >>
  /\ cola = << >>
  /\ archivos' = archivos_tx
  /\ salida' = [cmd |-> "index", msg |-> "Indexacion completada", n |-> contador]
  /\ pc' = "done"
  /\ UNCHANGED <<disk, tags, walk, args, antes>>

\* the process is interrupted during the walk: the transaction was not
\* committed, the stored table is the one before the walk
Interrumpir ==
  /\ pc = "walking"
  /\ salida' = [cmd |-> "index", msg |-> "interrumpido", n |-> contador]
  /\ pc' = "done"
  /\ UNCHANGED <<disk, archivos, tags, walk, args, antes>>

(***************************************************************************)
(* tag-add, tag-remove, list-tags, show.                                   *)
(***************************************************************************)
tag_add(path, tag) ==
  /\ pc = "shell"
  /\ args' = [cmd |-> "tag-add", path |-> path, tag |-> tag]
  /\ antes' = Ahora
  /\ tags' = InsertOrIgnore(tags, [file_path |-> path, tag |-> tag])
  /\ salida' = [cmd |-> "tag-add", msg |-> "Tag anadido"]
  /\ pc' = "done"
  /\ UNCHANGED <<disk, archivos, walk>>

tag_remove(path, tag) ==
  /\ pc = "shell"
  /\ args' = [cmd |-> "tag-remove", path |-> path, tag |-> tag]
  /\ antes' = Ahora
  /\ tags' = DeleteTag(tags, path, tag)
  /\ salida' = [cmd |-> "tag-remove", msg |-> "Tag eliminado"]
  /\ pc' = "done"
  /\ UNCHANGED <<disk, archivos, walk>>

\* SELECT tag, COUNT(*) FROM tags GROUP BY tag
TagGroups(tabla) ==
  {<<t, BagCardinality(Restrict(tabla, {r \in BagToSet(tabla) : r.tag = t}))>> :
     t \in {r.tag : r \in BagToSet(tabla)}}

\* ... ORDER BY COUNT(*) DESC: the order of groups of equal count is not
\* determined by the statement
OrderByCountDesc(groups) ==
  {s \in Perms(groups) : \A i, j \in 1..Len(s) : i < j => s[i][2] >= s[j][2]}

list_tags ==
  /\ pc = "shell"
  /\ args' = [cmd |-> "list-tags"]
  /\ antes' = Ahora
  /\ \E rows \in OrderByCountDesc(TagGroups(tags)) :
       salida' = [cmd |-> "list-tags", rows |-> rows]
  /\ pc' = "done"
  /\ UNCHANGED <<disk, archivos, tags, walk>>

show(path) ==
  /\ pc = "shell"
  /\ args' = [cmd |-> "show", path |-> path]
  /\ antes' = Ahora
  /\ LET found == {r \in BagToSet(archivos) : r.path = path}
     IN IF found = {}
        THEN salida' = [cmd |-> "show", row |-> None, tags |-> {}]
        ELSE \E r \in found :
               salida' = [cmd |-> "show", row |-> Some(r),
                          tags |-> get_tags_for(r.path, tags)]
  /\ pc' = "done"
  /\ UNCHANGED <<disk, archivos, tags, walk>>

\* main returns and the process ends
Terminar ==
  /\ pc = "done"
  /\ pc' = "shell"
  /\ args' = NoArgs
  /\ salida' = NoSalida
  /\ antes' = NoAntes
  /\ archivos_tx' = EmptyBag
  /\ cola' = << >>
  /\ pendientes' = << >>
  /\ contador' = 0
  /\ leidos' = << >>
  /\ UNCHANGED <<disk, archivos, tags>>

(***************************************************************************)
(* search: aplica_filtros and buscar.                                      *)
(***************************************************************************)
\* the truth value Python gives an optional int, str and date string
TruthyInt(o) == o # None /\ o[1] # 0
TruthyStr(o) == o # None /\ o[1] # << >>
TruthyDate(o) == o # None /\ o[1] # ""

\* datetime.fromisoformat(s).timestamp(): the day of an ISO date, None when
\* the string is not one (the exception)
fromisoformat(s) ==
  CASE s = "1969-12-31" -> Some(0 - 1)
    [] s = "1970-01-01" -> Some(0)
    [] s = "1970-01-02" -> Some(1)
    [] s = "1970-01-03" -> Some(2)
    [] OTHER -> None

\* mtime < t of the after bound; t = 0 when the date does not parse
EarlierThanAfter(mtime, after) ==
  LET d == fromisoformat(after)
      t == IF d = None THEN 0 ELSE d[1]
  IN mtime < t

\* mtime > t of the before bound; t = float('inf') when the date does not
\* parse, and no mtime is above it
LaterThanBefore(mtime, before) ==
  LET d == fromisoformat(before)
  IN IF d = None THEN FALSE ELSE mtime > d[1]

aplica_filtros(row, a, tabla) ==
  /\ ~(TruthyStr(a.ext) /\ row.ext # Lower(LStrip(a.ext[1], ".")))
  /\ ~(TruthyStr(a.tag) /\ a.tag[1] \notin get_tags_for(row.path, tabla))
  /\ ~(TruthyInt(a.min_size) /\ row.size < a.min_size[1])
  /\ ~(TruthyInt(a.max_size) /\ row.size > a.max_size[1])
  /\ ~(TruthyDate(a.after) /\ EarlierThanAfter(row.mtime, a.after[1]))
  /\ ~(TruthyDate(a.before) /\ LaterThanBefore(row.mtime, a.before[1]))

\* a tag match that ignores case
sc_tag_nocase(query, tagset) ==
  IF Lower(query) \in {Lower(t) : t \in tagset} THEN <<1, 1>> ELSE <<0, 1>>

\* sc_tag: 1.0 if query in tags else 0.0
sc_tag(query, tagset) == IF query \in tagset THEN <<1, 1>> ELSE <<0, 1>>

\* score = max(sc_name, sc_path, sc_tag)
Score(query, row, tabla) ==
  Max3(score_nombre(query, row.name), score_nombre(query, row.path),
       sc_tag(query, get_tags_for(row.path, tabla)))

\* args.threshold or 0.4
Umbral(a) == IF a.threshold[1] # 0 THEN a.threshold ELSE <<2, 5>>

\* the loop of buscar over the fetched rows: the tuples appended to
\* resultados, in the order of the rows
RECURSIVE Resultados(_, _, _)
Resultados(rows, a, tabla) ==
  IF rows = << >> THEN << >>
  ELSE LET row == Head(rows)
           sc == Score(a.query, row, tabla)
           resto == Resultados(Tail(rows), a, tabla)
       IN IF aplica_filtros(row, a, tabla) /\ FracGeq(sc, Umbral(a))
          THEN <<[score |-> sc, path |-> row.path, name |-> row.name,
                  ext |-> row.ext, size |-> row.size, mtime |-> row.mtime,
                  tags |-> get_tags_for(row.path, tabla)]>> \o resto
          ELSE resto

\* list.sort(key=score, reverse=True): stable, the larger score first
RECURSIVE InsertDesc(_, _)
InsertDesc(sorted, x) ==
  IF sorted = << >> THEN <<x>>
  ELSE IF FracGeq(Head(sorted).score, x.score)
       THEN <<Head(sorted)>> \o InsertDesc(Tail(sorted), x)
       ELSE <<x>> \o sorted

RECURSIVE SortDesc(_)
SortDesc(s) ==
  IF s = << >> THEN << >>
  ELSE InsertDesc(SortDesc(SubSeq(s, 1, Len(s) - 1)), s[Len(s)])

\* resultados[: limit]
Slice(s, limit) ==
  IF limit >= 0
  THEN SubSeq(s, 1, IF limit < Len(s) THEN limit ELSE Len(s))
  ELSE SubSeq(s, 1, Len(s) + limit)

\* SELECT ... FROM archivos: the rows come in an order the statement does
\* not determine
buscar(a) ==
  /\ pc = "shell"
  /\ args' = a
  /\ antes' = Ahora
  /\ \E orden \in Perms(Instances(archivos)) :
       LET rows == [i \in 1..Len(orden) |-> orden[i][1]]
           resultados == SortDesc(Resultados(rows, a, tags))
       IN salida' = [cmd |-> "search", resultados |-> resultados,
                     items |-> Slice(resultados, a.limit)]
  /\ pc' = "done"
  /\ UNCHANGED <<disk, archivos, tags, walk>>

(***************************************************************************)
(* The command lines.                                                      *)
(***************************************************************************)
\* --limit, default=20
DefaultLimit == 20
\* --threshold, default=0.4
DefaultThreshold == <<2, 5>>

Queries == {<<"x">>, <<"b">>, <<"B">>}

\* search <query> with no option given
DefaultArgs(q) ==
  [cmd |-> "search", query |-> q, ext |-> None, tag |-> None,
   min_size |-> None, max_size |-> None, after |-> None, before |-> None,
   limit |-> DefaultLimit, threshold |-> DefaultThreshold]

\* the command lines search <query> for the queries of the model
SearchArgs == {DefaultArgs(q) : q \in Queries}

\* search with options: the threshold and the limit over their ranges, some
\* of the filters
BuscarArgs ==
  [cmd : {"search"}, query : Queries,
   ext : {None, Some(<<".", "T">>)},
   tag : {None, Some(<<"x">>)},
   min_size : {None},
   max_size : {None, Some(0)},
   after : {None, Some("ayer")},
   before : {None},
   limit : ((0 - 1)..MaxLimit),
   threshold : {<<0, 1>>, <<2, 5>>, <<1, 1>>}]

\* search with every filter over its range
FiltroArgs ==
  [cmd : {"search"}, query : {<<"x">>},
   ext : {None, Some(<<"T">>), Some(<<".", "T">>), Some(<<"x">>)},
   tag : {None, Some(<<"x">>), Some(<<"X">>)},
   min_size : {None} \cup {Some(n) : n \in 0..MaxSize},
   max_size : {None} \cup {Some(n) : n \in 0..MaxSize},
   after : {None, Some(""), Some("ayer"), Some("1970-01-01")},
   before : {None, Some("ayer"), Some("1969-12-31")},
   limit : {DefaultLimit}, threshold : {DefaultThreshold}]

(***************************************************************************)
(* Spec: the commands against the store, search with no option.            *)
(***************************************************************************)
Next ==
  \/ \E f \in Files, st \in DiskStats : Escribir(f, st)
  \/ \E f \in Files : Borrar(f)
  \/ \E ruta \in Rutas : IndexStart(ruta)
  \/ WalkDir
  \/ IndexFile
  \/ IndexCommit
  \/ Interrumpir
  \/ \E p \in Files, t \in Tags : tag_add(p, t)
  \/ \E p \in Files, t \in Tags : tag_remove(p, t)
  \/ list_tags
  \/ \E p \in Files : show(p)
  \/ \E a \in SearchArgs : buscar(a)
  \/ Terminar

Spec == Init /\ [][Next]_vars

(***************************************************************************)
(* SpecBuscar: search with its options, and the tag commands, against a    *)
(* store that index commands have filled.                                  *)
(***************************************************************************)
\* the tables index can leave: each file not indexed, or indexed with one
\* of its stat results
Stores ==
  {SetToBag({FileRow(f, st[f][1]) : f \in {g \in Files : st[g] # None}}) :
     st \in [Files -> {None} \cup {Some(x) : x \in DiskStats}]}

InitBuscar ==
  /\ disk = [f \in Files |-> None]
  /\ archivos \in Stores
  /\ tags = EmptyBag
  /\ pc = "shell"
  /\ archivos_tx = EmptyBag
  /\ cola = << >>
  /\ pendientes = << >>
  /\ contador = 0
  /\ args = NoArgs
  /\ salida = NoSalida
  /\ antes = NoAntes
  /\ leidos = << >>

NextBuscar ==
  \/ \E p \in Files, t \in Tags : tag_add(p, t)
  \/ \E p \in Files, t \in Tags : tag_remove(p, t)
  \/ \E a \in BuscarArgs : buscar(a)
  \/ Terminar

SpecBuscar == InitBuscar /\ [][NextBuscar]_vars

(***************************************************************************)
(* SpecFiltros: aplica_filtros as a function of a row, the tags of its     *)
(* path and the filter options.                                            *)
(***************************************************************************)
InitFiltros ==
  /\ disk = [f \in Files |-> None]
  /\ \E f \in Files, st \in [size : 0..MaxSize, mtime : (0 - 1)..MaxTime] :
       /\ archivos = SetToBag({FileRow(f, st)})
       /\ \E ts \in SUBSET Tags :
            tags = SetToBag({[file_path |-> f, tag |-> t] : t \in ts})
  /\ pc = "shell"
  /\ archivos_tx = EmptyBag
  /\ cola = << >>
  /\ pendientes = << >>
  /\ contador = 0
  /\ args \in FiltroArgs
  /\ salida = NoSalida
  /\ antes = NoAntes
  /\ leidos = << >>

\* aplica_filtros(row, args, conn) on the row of the table
Filtrar ==
  /\ pc = "shell"
  /\ \E row \in BagToSet(archivos) :
       salida' = [cmd |-> "filtro", row |-> row,
                  admite |-> aplica_filtros(row, args, tags)]
  /\ pc' = "done"
  /\ UNCHANGED <<disk, archivos, tags, walk, args, antes>>

NextFiltros == Filtrar

SpecFiltros == InitFiltros /\ [][NextFiltros]_vars

(***************************************************************************)
(* Properties.                                                             *)
(***************************************************************************)
IndexDone(msg) == pc = "done" /\ salida.cmd = "index" /\ salida.msg = msg

RowsOfPath(tabla, p) == Restrict(tabla, {r \in BagToSet(tabla) : r.path = p})

\* C1: the table archivos, stored or inside the transaction of a scan,
\* never holds two rows of one path; and when a scan has committed, the one
\* row of every path it upserted is the row made of the name, ext, size and
\* mtime that the scan read
C1_UnaFilaPorPath ==
  /\ \A p \in Files : BagCardinality(RowsOfPath(archivos, p)) <= 1
  /\ \A p \in Files : BagCardinality(RowsOfPath(archivos_tx, p)) <= 1
  /\ IndexDone("Indexacion completada") =>
       \A i \in 1..Len(leidos) :
         RowsOfPath(archivos, leidos[i][1])
           = SetToBag({FileRow(leidos[i][1], leidos[i][2])})

\* a committed scan has upserted a path that was stored with another size
C1_Witness ==
  /\ IndexDone("Indexacion completada")
  /\ \E i \in 1..Len(leidos) : \E r \in BagToSet(antes.archivos) :
       /\ r.path = leidos[i][1]
       /\ r.size # leidos[i][2].size
       /\ BagCardinality(RowsOfPath(archivos, r.path)) = 1

\* C2: when a scan is interrupted after k >= 1 upserts, the stored table
\* holds the rows of those k upserts
C2_UpsertsPersistidos ==
  (IndexDone("interrumpido") /\ Len(leidos) >= 1) =>
    \A i \in 1..Len(leidos) :
      BagIn(FileRow(leidos[i][1], leidos[i][2]), archivos)

\* C3: no (path, tag) pair is twice in the table tags; a tag-add of a pair
\* leaves it there once and changes no other pair, and a tag-add of a pair
\* that was there leaves the table as it was; a tag-remove of a pair that
\* was not there ends with its message and leaves the table as it was
C3_TagsIdempotentes ==
  /\ \A r \in BagToSet(tags) : CopiesIn(r, tags) = 1
  /\ (pc = "done" /\ args.cmd = "tag-add") =>
       LET row == [file_path |-> args.path, tag |-> args.tag]
       IN /\ CopiesIn(row, tags) = 1
          /\ \A r \in BagToSet(tags) \cup BagToSet(antes.tags) :
               r # row => CopiesIn(r, tags) = CopiesIn(r, antes.tags)
          /\ BagIn(row, antes.tags) => tags = antes.tags
  /\ (pc = "done" /\ args.cmd = "tag-remove") =>
       LET row == [file_path |-> args.path, tag |-> args.tag]
       IN ~BagIn(row, antes.tags) =>
            tags = antes.tags /\ salida.msg = "Tag eliminado"

\* tag-add has been applied to a pair that was in the table
C3_Witness ==
  /\ pc = "done"
  /\ args.cmd = "tag-add"
  /\ BagIn([file_path |-> args.path, tag |-> args.tag], antes.tags)
  /\ tags = antes.tags

\* C8: list-tags lists every tag of the table once with the number of
\* distinct paths holding it, the larger count first and, of equal counts,
\* the smaller tag string first
C8_ListTagsOrden ==
  (pc = "done" /\ salida.cmd = "list-tags") =>
    LET rows == salida.rows
        present == {r.tag : r \in BagToSet(tags)}
        paths(t) == {r.file_path : r \in {x \in BagToSet(tags) : x.tag = t}}
    IN /\ Len(rows) = Cardinality(present)
       /\ \A t \in present :
            \E i \in 1..Len(rows) : rows[i] = <<t, Cardinality(paths(t))>>
       /\ \A i, j \in 1..Len(rows) :
            i < j => \/ rows[i][2] > rows[j][2]
                     \/ rows[i][2] = rows[j][2] /\ StrLess(rows[i][1], rows[j][1])

\* C9: an index command leaves the table tags as it was; when it has
\* committed, a stored row whose path it upserted keeps its path, name and
\* ext and has the size and mtime read, every other stored row is still
\* there unchanged (also the row of a file that is gone from the disk), and
\* the only new rows are those of upserted paths; when it has not committed
\* the table archivos is as it was
C9_ScanFrame ==
  (pc = "done" /\ salida.cmd = "index") =>
    LET read == {leidos[i][1] : i \in 1..Len(leidos)}
    IN /\ tags = antes.tags
       /\ salida.msg # "Indexacion completada" => archivos = antes.archivos
       /\ salida.msg = "Indexacion completada" =>
            /\ \A r \in BagToSet(antes.archivos) :
                 IF r.path \in read
                 THEN \E i \in 1..Len(leidos) :
                        /\ leidos[i][1] = r.path
                        /\ RowsOfPath(archivos, r.path)
                             = SetToBag({[r EXCEPT !.size = leidos[i][2].size,
                                                   !.mtime = leidos[i][2].mtime]})
                 ELSE CopiesIn(r, archivos) = CopiesIn(r, antes.archivos)
            /\ \A n \in BagToSet(archivos) :
                 n.path \in read \/ BagIn(n, antes.archivos)

\* a committed scan re-read one stored file whose size had changed, a tag
\* is attached to that file, and another stored file is gone from the disk
C9_Witness ==
  /\ IndexDone("Indexacion completada")
  /\ \E i \in 1..Len(leidos) : \E r, g \in BagToSet(antes.archivos) :
       /\ r.path = leidos[i][1]
       /\ r.size # leidos[i][2].size
       /\ get_tags_for(r.path, tags) # {}
       /\ g.path # r.path
       /\ disk[g.path] = None
       /\ BagIn(g, archivos)

FiltroDone == pc = "done" /\ salida.cmd = "filtro"
SearchDone == pc = "done" /\ salida.cmd = "search"

\* a date bound that is absent or is an ISO date
DateOk(o) == o = None \/ fromisoformat(o[1]) # None
\* a date bound that is given and is not an ISO date
DateBad(o) == o # None /\ fromisoformat(o[1]) = None

\* C4: the filter admits a row exactly when the row satisfies every
\* predicate that is given: the extension equals the value (lower-cased,
\* leading dot stripped), the tag is one of the tags of the path, the size
\* is at least min-size and at most max-size (0 included), the mtime is
\* within the after and before dates.  (Date bounds that do not parse are
\* the subject of C5 and are left out here.)
C4_FiltroConjuncion ==
  (FiltroDone /\ DateOk(args.after) /\ DateOk(args.before)) =>
    LET row == salida.row
        tagset == {r.tag : r \in {x \in BagToSet(tags) : x.file_path = row.path}}
    IN salida.admite <=>
         /\ args.ext # None => row.ext = Lower(LStrip(args.ext[1], "."))
         /\ args.tag # None => args.tag[1] \in tagset
         /\ args.min_size # None => row.size >= args.min_size[1]
         /\ args.max_size # None => row.size <= args.max_size[1]
         /\ args.after # None => row.mtime >= fromisoformat(args.after[1])[1]
         /\ args.before # None => row.mtime <= fromisoformat(args.before[1])[1]

\* C5: a date bound that does not parse is no bound: the filter decides as
\* it does without that option, whatever the mtime of the row
C5_FechaMalformada ==
  FiltroDone =>
    /\ DateBad(args.after) =>
         (salida.admite
            <=> aplica_filtros(salida.row, [args EXCEPT !.after = None], tags))
    /\ DateBad(args.before) =>
         (salida.admite
            <=> aplica_filtros(salida.row, [args EXCEPT !.before = None], tags))

\* C6: a stored row is among the candidates of a search exactly when it
\* passes the filter and its composite score is at least the threshold
\* given on the command line
C6_UmbralDado ==
  SearchDone =>
    \A r \in BagToSet(archivos) :
      (\E i \in 1..Len(salida.resultados) : salida.resultados[i].path = r.path)
        <=> /\ aplica_filtros(r, args, tags)
            /\ FracGeq(Score(args.query, r, tags), args.threshold)

\* C7: with n rows qualifying (passing the filter, with a score at least
\* the threshold in force), search prints min(limit, n) items (none for a
\* limit below 0), every item a qualifying row, each score at least the
\* next one, and no qualifying row left out scores above a printed one
C7_LimiteYOrden ==
  SearchDone =>
    LET items == salida.items
        qual == {r \in BagToSet(archivos) :
                   /\ aplica_filtros(r, args, tags)
                   /\ FracGeq(Score(args.query, r, tags), Umbral(args))}
        n == Cardinality(qual)
        lim == IF args.limit < 0 THEN 0 ELSE args.limit
        printed == {items[i].path : i \in 1..Len(items)}
    IN /\ Len(items) = (IF lim < n THEN lim ELSE n)
       /\ \A i \in 1..Len(items) : \E r \in qual : r.path = items[i].path
       /\ \A i, j \in 1..Len(items) :
            i < j => FracGeq(items[i].score, items[j].score)
       /\ \A r \in qual : \A i \in 1..Len(items) :
            r.path \notin printed
              => FracGeq(items[i].score, Score(args.query, r, tags))

\* C10: in a search for q, a stored row whose path holds the tag q (the
\* very string) and which passes the filter is a candidate with score 1.0,
\* at each threshold; a row whose path does not hold the tag q has, when it
\* is a candidate, the larger of its name and path similarities as score
C10_TagExacto ==
  SearchDone =>
    \A r \in BagToSet(archivos) :
      LET tagged == BagIn([file_path |-> r.path, tag |-> args.query], tags)
          hits == {i \in 1..Len(salida.resultados) :
                     salida.resultados[i].path = r.path}
          sn == score_nombre(args.query, r.name)
          sp == score_nombre(args.query, r.path)
      IN /\ (tagged /\ aplica_filtros(r, args, tags)) =>
              /\ hits # {}
              /\ \A i \in hits : salida.resultados[i].score = <<1, 1>>
         /\ ~tagged =>
              \A i \in hits :
                salida.resultados[i].score = (IF FracGeq(sn, sp) THEN sn ELSE sp)

\* a search at threshold 1.0 has found a row through its tag alone: the
\* tag was added by an earlier tag-add, and the name and the path of the
\* row are not similar to the query at all
C10_Witness ==
  /\ SearchDone
  /\ args.threshold = <<1, 1>>
  /\ \E r \in BagToSet(archivos) :
       /\ BagIn([file_path |-> r.path, tag |-> args.query], tags)
       /\ score_nombre(args.query, r.name) = <<0, 1>>
       /\ score_nombre(args.query, r.path) = <<0, 1>>
       /\ \E i \in 1..Len(salida.items) :
            salida.items[i].path = r.path /\ salida.items[i].score = <<1, 1>>

====
